---- MODULE Spec2Model ----
(***************************************************************************)
(* State-machine model of the SmartSPD document pipeline:                  *)
(*   - DocumentVersionControl (upload_new_version, rollback_to_version)    *)
(*   - BatchDocumentProcessor (process_batch, retry_failed_documents)      *)
(*   - DocumentProcessor.process_document and the documents endpoints      *)
(*     (upload, manual process trigger, background task)                   *)
(* Document rows live in the sequence docs (the id of a row is its index), *)
(* chunk rows in the bag chunks.                                           *)
(*   - the chat endpoint submit_query and RAGService.process_query         *)
(***************************************************************************)
EXTENDS Integers, Sequences, FiniteSets, Bags, TLC

VARIABLES
    docs,        \* documents table: Seq of Document rows, id = index
    chunks,      \* document_chunks table: bag of [tpa_id, document_id, chunk_index]
    last,        \* the most recent version-control call and what it returned
    calls,       \* upload_new_version calls in flight, per caller
    batch,       \* the process_batch call: phase, documents, results, summary
    sem,         \* value of asyncio.Semaphore(max_concurrent)
    tasks,       \* one _process_single_document_with_semaphore task per document
    vs_init,     \* document_processor.vector_service.initialized
    retry,       \* the retry_failed_documents call
    bg,          \* background tasks scheduled by the documents endpoints
    rag,         \* the chat query in progress: submit_query and RAGService
    pipe,        \* one run of DocumentProcessor.process_document, chunk by chunk
    fusion       \* one call of the result fusion and scoring, with its arguments

vars == <<docs, chunks, last, calls, batch, sem, tasks, vs_init, retry, bg, rag, pipe, fusion>>

(***************************************************************************)
(* Bounds                                                                  *)
(***************************************************************************)
MaxDocs == 4          \* rows in the documents table (version-control runs)
MaxDeleteDocs == 3    \* rows in the documents table (runs with deletions)
MaxHash == 3          \* distinct file contents
MaxBatch == 2         \* file paths handed to process_batch
MaxChunks == 2        \* chunks an extraction yields (endpoint runs)
MaxBatchChunks == 1   \* chunks an extraction yields (batch runs)
MaxUploads == 2       \* documents uploaded through the endpoint
MaxRuns == 2          \* background tasks scheduled
MaxRetryCalls == 1    \* calls of retry_failed_documents

Hashes == 1..MaxHash
Tenants == {1, 2}
Callers == {1, 2}
DocIds == 1..MaxDocs

None == 0

(***************************************************************************)
(* Document rows                                                           *)
(***************************************************************************)
\* The members of the ProcessingStatus enum.  The enum has no PENDING member:
\* the version service writes the string 'pending' itself, the batch service
\* names ProcessingStatus.PENDING, an attribute access that raises.
ProcessingStatus == {"uploaded", "processing", "completed", "failed", "archived"}

\* A Document row as the endpoints and services create it; the metadata keys
\* the version and batch services use are fields (0 / FALSE = key absent).
Document(tpa, h, status) ==
    [tpa_id |-> tpa, file_hash |-> h, processing_status |-> status,
     processing_error |-> "", error_message |-> "",
     version_number |-> None, original_document_id |-> None,
     previous_version |-> None,
     is_version |-> FALSE, is_current |-> TRUE, archived_by_version |-> None,
     deleted |-> FALSE, is_rollback |-> FALSE, batch_id |-> None,
     health_plan_id |-> None, document_type |-> "spd",
     deleted_by |-> None, deleted_at |-> FALSE, delete_reason |-> None]

\* metadata.get('version_number', 1)
get_version_from_metadata(doc) ==
    IF doc.version_number = None THEN 1 ELSE doc.version_number

Max(S) == CHOOSE x \in S : \A y \in S : y <= x

\* document_crud.get(db, id=..., tpa_id=...): the row, or None
ExistsFor(ds, id, tpa) == id \in 1..Len(ds) /\ ds[id].tpa_id = tpa

(***************************************************************************)
(* DocumentVersionControl                                                  *)
(***************************************************************************)
\* The rows the version query selects: those whose metadata names id as
\* their original document, together with the row id itself.
VersionsOf(ds, id, tpa) ==
    {d \in 1..Len(ds) : ds[d].tpa_id = tpa /\ ds[d].original_document_id = id}
      \cup {d \in 1..Len(ds) : d = id /\ ds[d].tpa_id = tpa}

_get_current_version_number(ds, id, tpa) ==
    Max({1} \cup {get_version_from_metadata(ds[d]) : d \in VersionsOf(ds, id, tpa)})

\* _archive_previous_version: metadata.update(...) on the previous row
_archive_previous_version(doc, new_version) ==
    [doc EXCEPT !.is_current = FALSE, !.archived_by_version = new_version]

\* new_doc_data of upload_new_version: the original's metadata overlaid
\* with the version keys
NewVersionDoc(original_doc, original_document_id, h, tpa, current_version) ==
    [original_doc EXCEPT
        !.tpa_id = tpa, !.file_hash = h, !.processing_status = "pending",
        !.processing_error = "", !.error_message = "",
        !.version_number = current_version + 1,
        !.original_document_id = original_document_id,
        !.previous_version = current_version,
        !.is_version = TRUE]

\* The hash test that decides whether a version is created
ContentUnchanged(original_doc, h) == h = original_doc.file_hash

\* The tables after the create and the archive of upload_new_version
InsertVersion(ds, original_doc, id, h, tpa, current_version) ==
    [Append(ds, NewVersionDoc(original_doc, id, h, tpa, current_version))
        EXCEPT ![id] = _archive_previous_version(original_doc, current_version + 1)]

NoCall == [op |-> "none", id |-> None, file_hash |-> None, tpa_id |-> None,
           raised |-> FALSE, version_created |-> FALSE, new_version |-> None,
           document_id |-> None, user_id |-> None, delete_reason |-> None]

Others == <<calls, batch, sem, tasks, vs_init, retry, bg, pipe, fusion>>

\* upload_new_version run without interleaving
upload_new_version(id, h, tpa) ==
    /\ IF ~ExistsFor(docs, id, tpa)
       THEN \* "Original document not found"
            /\ last' = [NoCall EXCEPT !.op = "upload", !.id = id, !.file_hash = h,
                                      !.tpa_id = tpa, !.raised = TRUE]
            /\ UNCHANGED docs
       ELSE IF ContentUnchanged(docs[id], h)
       THEN /\ last' = [NoCall EXCEPT !.op = "upload", !.id = id, !.file_hash = h,
                                      !.tpa_id = tpa, !.document_id = id,
                                      !.new_version = _get_current_version_number(docs, id, tpa)]
            /\ UNCHANGED docs
       ELSE /\ Len(docs) < MaxDocs
            /\ LET current_version == _get_current_version_number(docs, id, tpa)
               IN /\ docs' = InsertVersion(docs, docs[id], id, h, tpa, current_version)
                  /\ last' = [NoCall EXCEPT !.op = "upload", !.id = id, !.file_hash = h,
                                            !.tpa_id = tpa, !.version_created = TRUE,
                                            !.new_version = current_version + 1,
                                            !.document_id = Len(docs) + 1]
    /\ UNCHANGED <<chunks, Others, rag, pipe, fusion>>

\* rollback_data of rollback_to_version
RollbackDoc(target_doc, original_doc_id, tpa, current_version) ==
    [target_doc EXCEPT
        !.tpa_id = tpa, !.processing_status = "completed",
        !.processing_error = "", !.error_message = "",
        !.version_number = current_version + 1,
        !.original_document_id = original_doc_id,
        !.is_rollback = TRUE]

\* "Get original document ID" of rollback_to_version
RollbackOriginalId(ds, target_version_id) ==
    IF ds[target_version_id].original_document_id # None
    THEN ds[target_version_id].original_document_id
    ELSE target_version_id

rollback_to_version(target_version_id, tpa) ==
    /\ IF ~ExistsFor(docs, target_version_id, tpa)
       THEN \* "Target version not found"
            /\ last' = [NoCall EXCEPT !.op = "rollback", !.id = target_version_id,
                                      !.tpa_id = tpa, !.raised = TRUE]
            /\ UNCHANGED docs
       ELSE /\ Len(docs) < MaxDocs
            /\ LET original_doc_id == RollbackOriginalId(docs, target_version_id)
                   current_version == _get_current_version_number(docs, original_doc_id, tpa)
               IN /\ docs' = Append(docs, RollbackDoc(docs[target_version_id],
                                                      original_doc_id, tpa, current_version))
                  /\ last' = [NoCall EXCEPT !.op = "rollback", !.id = target_version_id,
                                            !.file_hash = docs[target_version_id].file_hash,
                                            !.tpa_id = tpa, !.version_created = TRUE,
                                            !.new_version = current_version + 1,
                                            !.document_id = Len(docs) + 1]
    /\ UNCHANGED <<chunks, Others, rag, pipe, fusion>>

\* "Soft delete by updating metadata"
SoftDelete(ds, version_id, user_id, delete_reason) ==
    [ds EXCEPT ![version_id].deleted = TRUE,
               ![version_id].deleted_by = user_id,
               ![version_id].deleted_at = TRUE,
               ![version_id].delete_reason = delete_reason]

\* delete_version without the test of metadata.get('is_version')
delete_version_unmarked(version_id, tpa, user_id, delete_reason) ==
    /\ IF ~ExistsFor(docs, version_id, tpa)
       THEN /\ last' = [NoCall EXCEPT !.op = "delete", !.id = version_id, !.tpa_id = tpa,
                                      !.user_id = user_id, !.delete_reason = delete_reason,
                                      !.raised = TRUE]
            /\ UNCHANGED docs
       ELSE /\ docs' = SoftDelete(docs, version_id, user_id, delete_reason)
            /\ last' = [NoCall EXCEPT !.op = "delete", !.id = version_id, !.tpa_id = tpa,
                                      !.user_id = user_id, !.delete_reason = delete_reason,
                                      !.document_id = version_id]
    /\ UNCHANGED <<chunks, Others, rag, pipe, fusion>>

\* delete_version: "Version not found" and "Cannot delete original document
\* through version control" raise; otherwise the row is marked deleted
delete_version(version_id, tpa, user_id, delete_reason) ==
    /\ IF ~ExistsFor(docs, version_id, tpa) \/ ~docs[version_id].is_version
       THEN /\ last' = [NoCall EXCEPT !.op = "delete", !.id = version_id, !.tpa_id = tpa,
                                      !.user_id = user_id, !.delete_reason = delete_reason,
                                      !.raised = TRUE]
            /\ UNCHANGED docs
       ELSE /\ docs' = SoftDelete(docs, version_id, user_id, delete_reason)
            /\ last' = [NoCall EXCEPT !.op = "delete", !.id = version_id, !.tpa_id = tpa,
                                      !.user_id = user_id, !.delete_reason = delete_reason,
                                      !.document_id = version_id]
    /\ UNCHANGED <<chunks, Others, rag, pipe, fusion>>

IdleCall == [pc |-> "idle", id |-> None, file_hash |-> None, tpa_id |-> None,
             current_version |-> None, original_doc |-> Document(None, None, "uploaded")]
IdleCalls == [c \in Callers |-> IdleCall]
IdleBatch == [phase |-> "idle", batch_id |-> None, n_files |-> 0, documents |-> <<>>,
              results |-> <<>>, total_documents |-> 0, successful |-> 0, failed |-> 0]
IdleRetry == [pc |-> "idle", failed_docs |-> <<>>, i |-> 0, calls |-> 0,
              results |-> <<>>, retry_count |-> 0]
NoAnalysis == [complexity |-> "simple", benefit_types |-> {}, cross_reference_needed |-> FALSE]
NoResponse == [kind |-> "none", answer |-> [kind |-> "none", excerpt |-> <<>>],
               confidence_level |-> "none"]
NoReply == [status |-> 0, ready_for_queries |-> TRUE, response |-> "none",
            confidence_score |-> 0, error |-> "none"]
IdleQuery == [pc |-> "idle", tpa_id |-> None, health_plan_id |-> None,
              analysis |-> NoAnalysis,
              vector_results |-> <<>>, kg_results |-> <<>>, cross_ref_results |-> <<>>,
              db_results |-> <<>>, failed |-> {}, asked |-> {},
              chunks |-> <<>>, response |-> NoResponse, raised |-> FALSE,
              confidence_score |-> 0, reply |-> NoReply, reasoning_asked |-> FALSE]

\* No run of process_document is under way.  `added` holds the indexes of
\* the chunk rows added to the session, `embedding` holds the indexes
\* of the chunks whose embedding column is set, `indexed` those upserted
\* into the vector index, `failed_embeddings` those whose embedding call
\* raised, `other_failure` whether anything but an embedding call failed
IdlePipe == [pc |-> "idle", document_id |-> None, n |-> 0, i |-> 0, added |-> {},
             embedding |-> {}, indexed |-> {}, failed_embeddings |-> {},
             vectorized_chunks |-> 0, failed_chunks |-> 0,
             other_failure |-> FALSE, success |-> FALSE]

\* No call of the fusion is under way
NoFusion == [pc |-> "idle", analysis |-> NoAnalysis,
             vector_results |-> <<>>, kg_results |-> <<>>, cross_ref_results |-> <<>>,
             db_results |-> <<>>, chunks |-> <<>>,
             confidence_level |-> "none", confidence_score |-> 0]

\* One original document of tenant 1, uploaded and processed
InitVersions ==
    /\ \E h \in Hashes : docs = <<Document(1, h, "completed")>>
    /\ chunks = EmptyBag
    /\ last = NoCall
    /\ calls = IdleCalls
    /\ batch = IdleBatch
    /\ sem = 0
    /\ tasks = <<>>
    /\ vs_init = FALSE
    /\ retry = IdleRetry
    /\ bg = <<>>
    /\ rag = IdleQuery
    /\ pipe = IdlePipe
    /\ fusion = NoFusion

NextVersions ==
    \/ \E id \in DocIds, h \in Hashes, tpa \in Tenants : upload_new_version(id, h, tpa)
    \/ \E id \in DocIds, tpa \in Tenants : rollback_to_version(id, tpa)

SpecVersions == InitVersions /\ [][NextVersions]_vars

Users == {1}            \* user_id of the caller of delete_version
DeleteReasons == {1}    \* delete_reason it gives

\* Uploads of new versions by the tenant of the original document, and
\* deletions asked for by either tenant
NextDelete ==
    \/ /\ Len(docs) < MaxDeleteDocs
       /\ \E id \in DocIds, h \in Hashes : upload_new_version(id, h, 1)
    \/ \E id \in DocIds, tpa \in Tenants, user_id \in Users, delete_reason \in DeleteReasons :
          delete_version(id, tpa, user_id, delete_reason)

SpecDelete == InitVersions /\ [][NextDelete]_vars

(***************************************************************************)
(* Lineages                                                                *)
(***************************************************************************)
\* The first row of the chain a row belongs to
RECURSIVE Root(_, _)
Root(ds, d) ==
    IF ds[d].original_document_id = None THEN d
    ELSE Root(ds, ds[d].original_document_id)

Lineage(ds, d) == {e \in 1..Len(ds) : Root(ds, e) = Root(ds, d)}

LineageVersions(ds, d) == {get_version_from_metadata(ds[e]) : e \in Lineage(ds, d)}

\* The rows of d's lineage that carry its highest version number
CurrentOf(ds, d) ==
    {e \in Lineage(ds, d) : get_version_from_metadata(ds[e]) = Max(LineageVersions(ds, d))}

VersionsContiguous ==
    \A d \in 1..Len(docs) :
        /\ LineageVersions(docs, d) = 1..Cardinality(Lineage(docs, d))
        /\ \A e \in Lineage(docs, d) :
              e # d => get_version_from_metadata(docs[e]) # get_version_from_metadata(docs[d])

NewVersionHighest ==
    Len(docs') = Len(docs) + 1 =>
        \A e \in Lineage(docs', Len(docs')) \ {Len(docs')} :
            get_version_from_metadata(docs'[e]) < get_version_from_metadata(docs'[Len(docs')])

UploadReturn(c, id, h, tpa, raised, created, version, new_id) ==
    last' = [NoCall EXCEPT !.op = "upload", !.id = id, !.file_hash = h, !.tpa_id = tpa,
                           !.raised = raised, !.version_created = created,
                           !.new_version = version, !.document_id = new_id]

\* Lines 56-75: get the document, hash the file, compare, read the maximum
UploadRead(c, id, h, tpa) ==
    /\ calls[c].pc = "idle"
    /\ IF ~ExistsFor(docs, id, tpa)
       THEN /\ UploadReturn(c, id, h, tpa, TRUE, FALSE, None, None)
            /\ UNCHANGED calls
       ELSE IF ContentUnchanged(docs[id], h)
       THEN /\ UploadReturn(c, id, h, tpa, FALSE, FALSE,
                            _get_current_version_number(docs, id, tpa), id)
            /\ UNCHANGED calls
       ELSE /\ Len(docs) < MaxDocs
            /\ calls' = [calls EXCEPT ![c] =
                   [pc |-> "insert", id |-> id, file_hash |-> h, tpa_id |-> tpa,
                    current_version |-> _get_current_version_number(docs, id, tpa),
                    original_doc |-> docs[id]]]
            /\ UNCHANGED last
    /\ UNCHANGED <<docs, chunks, batch, sem, tasks, vs_init, retry, bg, rag, pipe, fusion>>

\* Lines 77-130: create the new row, archive the previous one, return
UploadInsert(c) ==
    /\ calls[c].pc = "insert"
    /\ Len(docs) < MaxDocs
    /\ docs' = InsertVersion(docs, calls[c].original_doc, calls[c].id, calls[c].file_hash,
                             calls[c].tpa_id, calls[c].current_version)
    /\ UploadReturn(c, calls[c].id, calls[c].file_hash, calls[c].tpa_id, FALSE, TRUE,
                    calls[c].current_version + 1, Len(docs) + 1)
    /\ calls' = [calls EXCEPT ![c] = IdleCall]
    /\ UNCHANGED <<chunks, batch, sem, tasks, vs_init, retry, bg, rag, pipe, fusion>>

NextRace ==
    \/ \E c \in Callers, id \in DocIds, h \in Hashes, tpa \in Tenants : UploadRead(c, id, h, tpa)
    \/ \E c \in Callers : UploadInsert(c)

SpecRace == InitVersions /\ [][NextRace]_vars

PipelineOutcomes(max_k) == {[k |-> k, success |-> b] : k \in 0..max_k, b \in BOOLEAN}

\* The text of a chunk or of a retrieval result.  `text` and `spelling`
\* stand for its first 100 characters (two spellings of one text differ in
\* case or white space only), `tail` for the characters after them.
Content(text, spelling, tail) == [text |-> text, spelling |-> spelling, tail |-> tail]

\* A DocumentChunk row; scores are in thousandths
DocumentChunk(tpa, d, j, content, chunk_type) ==
    [tpa_id |-> tpa, document_id |-> d, chunk_index |-> j, content |-> content,
     chunk_type |-> chunk_type, relevance_score |-> 500]

\* chunk_index=i for i, chunk_data in enumerate(chunks); the j-th chunk
\* holds the j-th passage of the file
ChunkRows(ds, d, k) ==
    {DocumentChunk(ds[d].tpa_id, d, j, Content(ds[d].file_hash, 1, j), "paragraph") :
        j \in 0..(k - 1)}

AddChunks(cs, ds, d, k) == cs (+) SetToBag(ChunkRows(ds, d, k))

\* document.processing_status = ProcessingStatus.PROCESSING; db.commit()
MarkProcessing(ds, d) == [ds EXCEPT ![d].processing_status = "processing"]

\* "Update final status" of process_document
FinalStatus(success) == IF success THEN "completed" ELSE "failed"

MarkFinal(ds, d, success) == [ds EXCEPT ![d].processing_status = FinalStatus(success)]

\* the except branch of process_document
MarkException(ds, d) ==
    [ds EXCEPT ![d].processing_status = "failed", ![d].processing_error = "exception"]

(***************************************************************************)
(* BatchDocumentProcessor.process_batch                                    *)
(***************************************************************************)
max_concurrent == 1
max_batch_size == 20

\* _create_document_record: the row of the i-th file of the batch
BatchDocument(tpa, i, batch_id) ==
    [Document(tpa, ((i - 1) % MaxHash) + 1, "pending") EXCEPT !.batch_id = batch_id]

\* The rows created for the files 1..n whose record creation does not raise
\* (the except branch of the creation loop skips a file whose record raised,
\* as the access to ProcessingStatus.PENDING does with the enum as it stands)
RECURSIVE CreateRecords(_, _, _, _, _)
CreateRecords(ds, tpa, n, fails, batch_id) ==
    IF n = 0 THEN ds
    ELSE LET before == CreateRecords(ds, tpa, n - 1, fails, batch_id)
         IN IF n \in fails THEN before
            ELSE Append(before, BatchDocument(tpa, n, batch_id))

WaitingTask == [pc |-> "waiting", result |-> "none"]

\* the guard of `async with semaphore`
SemaphoreFree_ungated(s) == TRUE

SemaphoreFree(s) == s > 0

\* the semaphore's value once a task has left `async with semaphore`
SemaphoreRelease_kept(s) == s

SemaphoreRelease(s) == s + 1

\* asyncio.gather(*tasks, return_exceptions=True)
return_exceptions_off == FALSE

return_exceptions == TRUE

\* process_batch without the test of the batch size
process_batch_unchecked(n, fails) ==
    /\ batch.phase = "idle"
    /\ docs' = CreateRecords(docs, 1, n, fails, 1)
    /\ batch' = [batch EXCEPT !.phase = "running", !.batch_id = 1, !.n_files = n,
                    !.documents = [j \in 1..(Len(docs') - Len(docs)) |-> Len(docs) + j]]
    /\ sem' = max_concurrent
    /\ tasks' = [j \in 1..(Len(docs') - Len(docs)) |-> WaitingTask]
    /\ UNCHANGED <<chunks, last, calls, vs_init, retry, bg, rag, pipe, fusion>>

\* process_batch up to the first await of gather: a batch of more than
\* max_batch_size paths raises DocumentProcessingError before anything else
process_batch(n, fails) ==
    /\ batch.phase = "idle"
    /\ IF n > max_batch_size
       THEN /\ batch' = [batch EXCEPT !.phase = "rejected", !.n_files = n]
            /\ UNCHANGED <<docs, sem, tasks>>
       ELSE /\ docs' = CreateRecords(docs, 1, n, fails, 1)
            /\ batch' = [batch EXCEPT !.phase = "running", !.batch_id = 1, !.n_files = n,
                            !.documents = [j \in 1..(Len(docs') - Len(docs)) |-> Len(docs) + j]]
            /\ sem' = max_concurrent
            /\ tasks' = [j \in 1..(Len(docs') - Len(docs)) |-> WaitingTask]
    /\ UNCHANGED <<chunks, last, calls, vs_init, retry, bg, rag, pipe, fusion>>

\* A task enters the semaphore and process_document runs up to its first
\* suspension: the vector service is initialised if need be (which may
\* raise), then the document is marked processing.
TaskStart(i, init_ok) ==
    /\ batch.phase = "running"
    /\ i \in 1..Len(tasks)
    /\ tasks[i].pc = "waiting"
    /\ SemaphoreFree(sem)
    /\ LET d == batch.documents[i]
       IN IF ~vs_init /\ ~init_ok
          THEN /\ docs' = MarkException(docs, d)
               /\ tasks' = [tasks EXCEPT ![i] = [pc |-> "done", result |-> "exception"]]
               /\ UNCHANGED <<sem, vs_init>>
          ELSE /\ docs' = MarkProcessing(docs, d)
               /\ tasks' = [tasks EXCEPT ![i].pc = "running"]
               /\ sem' = sem - 1
               /\ vs_init' = TRUE
    /\ UNCHANGED <<chunks, last, calls, batch, retry, bg, rag, pipe, fusion>>

\* The pipeline of a running task returns: its chunks and the final status
\* are committed, the task leaves the semaphore with the pipeline's result.
TaskFinish(i, out) ==
    /\ batch.phase = "running"
    /\ i \in 1..Len(tasks)
    /\ tasks[i].pc = "running"
    /\ LET d == batch.documents[i]
       IN /\ chunks' = AddChunks(chunks, docs, d, out.k)
          /\ docs' = MarkFinal(docs, d, out.success)
          /\ tasks' = [tasks EXCEPT ![i] =
                [pc |-> "done", result |-> IF out.success THEN "true" ELSE "false"]]
          /\ sem' = SemaphoreRelease(sem)
    /\ UNCHANGED <<last, calls, batch, vs_init, retry, bg, rag, pipe, fusion>>

\* The entry of the summary and the row after "Compile batch results"
CompileEntry(d, result) ==
    [document_id |-> d,
     status |-> IF result = "true" THEN "completed" ELSE "failed",
     error |-> IF result = "exception" THEN "exception"
               ELSE IF result = "true" THEN "" ELSE "Processing returned False"]

CompileDocument(doc, result) ==
    IF result = "true"
    THEN [doc EXCEPT !.processing_status = "completed"]
    ELSE [doc EXCEPT !.processing_status = "failed",
                     !.error_message = CompileEntry(0, result).error]

TaskOf(d) == CHOOSE i \in 1..Len(batch.documents) : batch.documents[i] = d

InBatch(d) == \E i \in 1..Len(batch.documents) : batch.documents[i] = d

\* gather returns once every task is done; the results are compiled
BatchCompile ==
    /\ batch.phase = "running"
    /\ \A i \in 1..Len(tasks) : tasks[i].pc = "done"
    /\ IF ~return_exceptions /\ \E i \in 1..Len(tasks) : tasks[i].result = "exception"
       THEN /\ batch' = [batch EXCEPT !.phase = "raised"]
            /\ UNCHANGED docs
       ELSE /\ docs' = [d \in 1..Len(docs) |->
                          IF InBatch(d) THEN CompileDocument(docs[d], tasks[TaskOf(d)].result)
                          ELSE docs[d]]
            /\ batch' = [batch EXCEPT
                  !.phase = "done",
                  !.total_documents = Len(batch.documents),
                  !.results = [i \in 1..Len(tasks) |->
                                  CompileEntry(batch.documents[i], tasks[i].result)],
                  !.successful = Cardinality({i \in 1..Len(tasks) : tasks[i].result = "true"}),
                  !.failed = Cardinality({i \in 1..Len(tasks) : tasks[i].result # "true"})]
    /\ UNCHANGED <<chunks, last, calls, sem, tasks, vs_init, retry, bg, rag, pipe, fusion>>

(***************************************************************************)
(* BatchDocumentProcessor.retry_failed_documents                           *)
(***************************************************************************)
\* The ids in S in ascending order
RECURSIVE SetToSeq(_)
SetToSeq(S) ==
    IF S = {} THEN <<>>
    ELSE LET m == CHOOSE x \in S : \A y \in S : x <= y
         IN <<m>> \o SetToSeq(S \ {m})

\* document_crud.get_failed_by_batch
get_failed_by_batch(ds, batch_id, tpa) ==
    {d \in 1..Len(ds) : /\ ds[d].tpa_id = tpa
                        /\ ds[d].batch_id = batch_id
                        /\ ds[d].processing_status = "failed"}

\* "Reset status to pending"
ResetForRetry(doc) == [doc EXCEPT !.processing_status = "pending", !.error_message = ""]

\* The loop moves to the next failed document, or the call returns
RetryAdvance(r, outcome) ==
    [r EXCEPT !.results = Append(r.results, outcome),
              !.retry_count = IF outcome = "success" THEN r.retry_count + 1 ELSE r.retry_count,
              !.i = r.i + 1,
              !.pc = IF r.i < Len(r.failed_docs) THEN "reset" ELSE "idle"]

retry_failed_documents ==
    /\ batch.phase = "done"
    /\ retry.pc = "idle"
    /\ retry.calls < MaxRetryCalls
    /\ LET failed_docs == SetToSeq(get_failed_by_batch(docs, batch.batch_id, 1))
       IN retry' = [pc |-> IF failed_docs = <<>> THEN "idle" ELSE "reset",
                    failed_docs |-> failed_docs, i |-> 1, calls |-> retry.calls + 1,
                    results |-> <<>>, retry_count |-> 0]
    /\ UNCHANGED <<docs, chunks, last, calls, batch, sem, tasks, vs_init, bg, rag, pipe, fusion>>

\* the except branch of the retry loop
RetryException(doc) ==
    [doc EXCEPT !.processing_status = "failed", !.error_message = "Retry failed"]

\* The first statement of the loop body assigns ProcessingStatus.PENDING.
\* The enum defines no such member, so the access raises AttributeError and
\* the except branch of the loop marks the document failed without calling
\* process_document (pending_ok = FALSE); pending_ok = TRUE is the rest of
\* the loop body, reached only if the member resolves.
RetryReset(pending_ok) ==
    /\ retry.pc = "reset"
    /\ IF pending_ok
       THEN /\ docs' = [docs EXCEPT ![retry.failed_docs[retry.i]] = ResetForRetry(@)]
            /\ retry' = [retry EXCEPT !.pc = "begin"]
       ELSE /\ docs' = [docs EXCEPT ![retry.failed_docs[retry.i]] = RetryException(@)]
            /\ retry' = RetryAdvance(retry, "failed")
    /\ UNCHANGED <<chunks, last, calls, batch, sem, tasks, vs_init, bg, rag, pipe, fusion>>

\* process_document up to its first suspension; if the vector service
\* cannot be initialised the exception reaches the except branch of the loop
RetryBegin(init_ok) ==
    /\ retry.pc = "begin"
    /\ LET d == retry.failed_docs[retry.i]
       IN IF ~vs_init /\ ~init_ok
          THEN /\ docs' = [MarkException(docs, d) EXCEPT ![d].error_message = "Retry failed"]
               /\ retry' = RetryAdvance(retry, "failed")
               /\ UNCHANGED vs_init
          ELSE /\ docs' = MarkProcessing(docs, d)
               /\ retry' = [retry EXCEPT !.pc = "run"]
               /\ vs_init' = TRUE
    /\ UNCHANGED <<chunks, last, calls, batch, sem, tasks, bg, rag, pipe, fusion>>

\* The pipeline returns and the loop records the outcome of the attempt
RetryFinish(out) ==
    /\ retry.pc = "run"
    /\ LET d == retry.failed_docs[retry.i]
       IN /\ chunks' = AddChunks(chunks, docs, d, out.k)
          /\ docs' = IF out.success
                     THEN MarkFinal(docs, d, TRUE)
                     ELSE [MarkFinal(docs, d, FALSE) EXCEPT
                              ![d].error_message = "Retry processing failed"]
          /\ retry' = RetryAdvance(retry, IF out.success THEN "success" ELSE "failed")
    /\ UNCHANGED <<last, calls, batch, sem, tasks, vs_init, bg, rag, pipe, fusion>>

\* The documents table holds one failed document of an earlier batch
InitBatch ==
    /\ docs = <<[Document(1, 1, "failed") EXCEPT !.batch_id = 2,
                                                 !.error_message = "Processing returned False"]>>
    /\ chunks = EmptyBag
    /\ last = NoCall
    /\ calls = IdleCalls
    /\ batch = IdleBatch
    /\ sem = 0
    /\ tasks = <<>>
    /\ vs_init = FALSE
    /\ retry = IdleRetry
    /\ bg = <<>>
    /\ rag = IdleQuery
    /\ pipe = IdlePipe
    /\ fusion = NoFusion

TaskStep ==
    \/ \E i \in 1..MaxBatch, init_ok \in BOOLEAN : TaskStart(i, init_ok)
    \/ \E i \in 1..MaxBatch, out \in PipelineOutcomes(MaxBatchChunks) : TaskFinish(i, out)
    \/ BatchCompile

RetryStep ==
    \/ \E pending_ok \in BOOLEAN : RetryReset(pending_ok)
    \/ \E init_ok \in BOOLEAN : RetryBegin(init_ok)
    \/ \E out \in PipelineOutcomes(MaxBatchChunks) : RetryFinish(out)

NextBatch ==
    \/ \E n \in 1..MaxBatch : \E fails \in SUBSET (1..n) : process_batch(n, fails)
    \/ process_batch(max_batch_size + 1, {})
    \/ TaskStep
    \/ retry_failed_documents
    \/ RetryStep

SpecBatch == InitBatch /\ [][NextBatch]_vars

\* The event loop runs every task that can run, and every pipeline returns
LiveSpecBatch == SpecBatch /\ WF_vars(TaskStep) /\ WF_vars(RetryStep)

(***************************************************************************)
(* Properties of the batch orchestrator                                    *)
(***************************************************************************)
BatchDocs == {batch.documents[i] : i \in 1..Len(batch.documents)}

ProcessingInBatch == {d \in BatchDocs : docs[d].processing_status = "processing"}

\* C4: at most max_concurrent documents of the batch are in the processing
\* state at the same time, in every reachable state.
C4_AtMostBProcessing == Cardinality(ProcessingInBatch) <= max_concurrent

\* max_concurrent documents are processing while another task waits
C4_Witness ==
    /\ batch.phase = "running"
    /\ Cardinality(ProcessingInBatch) = max_concurrent
    /\ \E i \in 1..Len(tasks) : tasks[i].pc = "waiting"

BatchReturned == batch.phase = "done" /\ retry.calls = 0

\* C5: the batch call never aborts, and when it returns every document of
\* the batch has been processed and carries the terminal state of its own
\* pipeline outcome, whatever happened to the others.
C5_FailuresAreIsolated ==
    /\ batch.phase # "raised"
    /\ BatchReturned =>
          \A i \in 1..Len(tasks) :
              /\ tasks[i].pc = "done"
              /\ docs[batch.documents[i]].processing_status =
                     (IF tasks[i].result = "true" THEN "completed" ELSE "failed")
              /\ batch.results[i].status = docs[batch.documents[i]].processing_status

\* the batch returned with one document failed by an exception and another
\* completed
C5_Witness ==
    /\ BatchReturned
    /\ \E i, j \in 1..Len(tasks) :
          /\ tasks[i].result = "exception"
          /\ docs[batch.documents[i]].processing_status = "failed"
          /\ tasks[j].result = "true"
          /\ docs[batch.documents[j]].processing_status = "completed"

AllTerminalWithError ==
    \A d \in BatchDocs :
        /\ docs[d].processing_status \in {"completed", "failed"}
        /\ docs[d].processing_status = "failed" => docs[d].error_message # ""

RetryDocs == {retry.failed_docs[j] : j \in 1..Len(retry.failed_docs)}

ChunksOf(cs, d) == [r \in {x \in BagToSet(cs) : x.document_id = d} |-> CopiesIn(r, cs)]

\* the call selects exactly the failed documents of the batch
RetrySelectsFailed ==
    retry'.calls = retry.calls + 1 =>
        RetryDocs' = {d \in BatchDocs : docs[d].processing_status = "failed"}

\* a step of the retry touches no document outside its selection
RetryFrame ==
    retry' # retry =>
        \A d \in 1..Len(docs) :
            d \notin RetryDocs' => (docs'[d] = docs[d] /\ ChunksOf(chunks', d) = ChunksOf(chunks, d))

\* a document enters processing only from pending with its error cleared
RetryResetsFirst ==
    retry' # retry =>
        \A d \in RetryDocs :
            (docs'[d].processing_status = "processing" /\ docs[d].processing_status # "processing")
                => (docs[d].processing_status = "pending" /\ docs[d].error_message = "")

\* the outcome of a selected document is recorded only after it was reset
\* and process_document was called for it
RetryReprocesses ==
    Len(retry'.results) = Len(retry.results) + 1 => retry.pc \in {"begin", "run"}

\* every selected document is attempted, and ends as its attempt ended
RetryOutcome ==
    /\ retry.pc \in {"begin", "run"} =>
          /\ docs[retry.failed_docs[retry.i]].error_message = ""
          /\ docs[retry.failed_docs[retry.i]].processing_status =
                 (IF retry.pc = "begin" THEN "pending" ELSE "processing")
    /\ (retry.pc = "idle" /\ retry.calls > 0) =>
          /\ Len(retry.results) = Len(retry.failed_docs)
          /\ \A j \in 1..Len(retry.failed_docs) :
                docs[retry.failed_docs[j]].processing_status =
                    (IF retry.results[j] = "success" THEN "completed" ELSE "failed")

get_by_hash(ds, h, tpa) == {d \in 1..Len(ds) : ds[d].file_hash = h /\ ds[d].tpa_id = tpa}

\* background_tasks.add_task(process_document_background, document_id, file_path)
ScheduledTask(d) == [document_id |-> d, pc |-> "scheduled"]

\* POST /upload: a duplicate of a stored file is refused, otherwise the row
\* is created as uploaded and its processing is scheduled
upload_document(h, tpa) ==
    /\ Len(docs) < MaxUploads
    /\ Len(bg) < MaxRuns
    /\ get_by_hash(docs, h, tpa) = {}
    /\ docs' = Append(docs, Document(tpa, h, "uploaded"))
    /\ bg' = Append(bg, ScheduledTask(Len(docs) + 1))
    /\ UNCHANGED <<chunks, last, calls, batch, sem, tasks, vs_init, retry, rag, pipe, fusion>>

\* POST /simple-upload: the row is created as uploaded; the endpoint looks
\* for no stored file of the same hash and schedules no processing
simple_upload_document(h, tpa) ==
    /\ Len(docs) < MaxUploads
    /\ docs' = Append(docs, Document(tpa, h, "uploaded"))
    /\ UNCHANGED <<chunks, last, calls, batch, sem, tasks, vs_init, retry, bg, rag, pipe, fusion>>

\* POST /{document_id}/process: the row is marked processing and another
\* background task is scheduled
process_document(d, tpa) ==
    /\ Len(bg) < MaxRuns
    /\ ExistsFor(docs, d, tpa)
    /\ docs' = MarkProcessing(docs, d)
    /\ bg' = Append(bg, ScheduledTask(d))
    /\ UNCHANGED <<chunks, last, calls, batch, sem, tasks, vs_init, retry, rag, pipe, fusion>>

\* process_document_background starts: the row is read and marked processing
BackgroundStart(r) ==
    /\ r \in 1..Len(bg)
    /\ bg[r].pc = "scheduled"
    /\ docs' = MarkProcessing(docs, bg[r].document_id)
    /\ bg' = [bg EXCEPT ![r].pc = "started"]
    /\ UNCHANGED <<chunks, last, calls, batch, sem, tasks, vs_init, retry, rag, pipe, fusion>>

\* DocumentProcessor.process_document up to the first suspension of the
\* pipeline: the new processor initialises its vector service (which may
\* raise, and the row is marked failed) and marks the row processing
BackgroundProcess(r, init_ok) ==
    /\ r \in 1..Len(bg)
    /\ bg[r].pc = "started"
    /\ IF init_ok
       THEN /\ docs' = MarkProcessing(docs, bg[r].document_id)
            /\ bg' = [bg EXCEPT ![r].pc = "running"]
       ELSE /\ docs' = MarkException(docs, bg[r].document_id)
            /\ bg' = [bg EXCEPT ![r].pc = "done"]
    /\ UNCHANGED <<chunks, last, calls, batch, sem, tasks, vs_init, retry, rag, pipe, fusion>>

\* the pipeline returns; process_document and then the background task
\* write the final status
BackgroundFinish(r, out) ==
    /\ r \in 1..Len(bg)
    /\ bg[r].pc = "running"
    /\ LET d == bg[r].document_id
       IN /\ chunks' = AddChunks(chunks, docs, d, out.k)
          /\ docs' = IF out.success
                     THEN MarkFinal(docs, d, TRUE)
                     ELSE [MarkFinal(docs, d, FALSE) EXCEPT
                              ![d].processing_error = "Processing failed"]
    /\ bg' = [bg EXCEPT ![r].pc = "done"]
    /\ UNCHANGED <<last, calls, batch, sem, tasks, vs_init, retry, rag, pipe, fusion>>

InitDocs ==
    /\ docs = <<>>
    /\ chunks = EmptyBag
    /\ last = NoCall
    /\ calls = IdleCalls
    /\ batch = IdleBatch
    /\ sem = 0
    /\ tasks = <<>>
    /\ vs_init = FALSE
    /\ retry = IdleRetry
    /\ bg = <<>>
    /\ rag = IdleQuery
    /\ pipe = IdlePipe
    /\ fusion = NoFusion

NextDocs ==
    \/ \E h \in Hashes, tpa \in Tenants : upload_document(h, tpa)
    \/ \E h \in Hashes, tpa \in Tenants : simple_upload_document(h, tpa)
    \/ \E d \in 1..MaxUploads, tpa \in Tenants : process_document(d, tpa)
    \/ \E r \in 1..MaxRuns : BackgroundStart(r)
    \/ \E r \in 1..MaxRuns, init_ok \in BOOLEAN : BackgroundProcess(r, init_ok)
    \/ \E r \in 1..MaxRuns, out \in PipelineOutcomes(MaxChunks) : BackgroundFinish(r, out)

SpecDocs == InitDocs /\ [][NextDocs]_vars

(***************************************************************************)
(* Properties of a document's processing state and chunks                  *)
(***************************************************************************)
AllowedTransitions ==
    {<<"uploaded", "processing">>, <<"processing", "completed">>,
     <<"processing", "failed">>, <<"failed", "processing">>}

\* C8: processing_status changes only along uploaded -> processing,
\* processing -> completed, processing -> failed and failed -> processing;
\* a completed document never goes back to processing.
C8_StatusTransitions ==
    [][\A d \in 1..Len(docs) :
          \/ docs'[d].processing_status = docs[d].processing_status
          \/ <<docs[d].processing_status, docs'[d].processing_status>> \in AllowedTransitions]_vars

PipelinesInFlight(d) == {r \in 1..Len(bg) : bg[r].document_id = d /\ bg[r].pc # "done"}

\* C9: a trigger for a document that is already processing is a no-op: it
\* schedules no second pipeline for the document and changes nothing.
C9_DuplicateTriggerIsNoOp ==
    [][\A d \in 1..Len(docs) :
          (docs[d].processing_status = "processing" /\ PipelinesInFlight(d) # {})
              => PipelinesInFlight(d)' \subseteq PipelinesInFlight(d)]_vars

ChunkIndexes(d) == {x.chunk_index : x \in {y \in BagToSet(chunks) : y.document_id = d}}

ChunkCount(d) == Cardinality({y \in BagToSet(chunks) : y.document_id = d})

\* C10: once the processing runs of a document are over, the chunk_index
\* values of its stored chunks are pairwise distinct and form 0..n-1.
C10_ChunkIndexContiguous ==
    \A d \in 1..Len(docs) :
        PipelinesInFlight(d) = {} =>
            /\ \A x \in BagToSet(chunks) : x.document_id = d => CopiesIn(x, chunks) = 1
            /\ ChunkIndexes(d) = 0..(ChunkCount(d) - 1)

(***************************************************************************)
(* Ingestion paths and stored content                                      *)
(***************************************************************************)
\* The stored documents of a tenant that hold the content of hash h
StoredWithHash(tpa, h) ==
    {d \in 1..Len(docs) : docs[d].tpa_id = tpa /\ docs[d].file_hash = h /\ ~docs[d].deleted}

\* C11: whatever ingestion path the uploads take, a tenant never holds two
\* stored documents with the same content hash: the second upload of the
\* same bytes stores nothing.
C11_OneDocumentPerHash ==
    \A tpa \in Tenants, h \in Hashes : Cardinality(StoredWithHash(tpa, h)) <= 1

(***************************************************************************)
(* Rollback and archiving of versions                                      *)
(***************************************************************************)
\* The step is a rollback_to_version call that returned a document
RollbackReturned == last'.op = "rollback" /\ ~last'.raised

UploadCreated == last'.op = "upload" /\ last'.version_created

Plans == {1, 2}               \* health plan p belongs to tenant p
Complexities == {"simple", "medium", "complex"}
ConfidenceLevels == {"High", "Medium", "Low"}
BenefitTypes == {"specialist"}
SourceNames == {"vector", "knowledge_graph", "cross_reference", "database"}

\* a score the vector index reports for a match (above both thresholds)
VectorScores == {750}

\* unique_results[:10]
TopResults == 10

\* What _analyze_query returns: the parsed analysis overlaid with the
\* pattern-based one, or the fallback analysis (no cross_reference_needed)
AnalysisOutcomes ==
    [complexity : Complexities, benefit_types : SUBSET BenefitTypes,
     cross_reference_needed : BOOLEAN]

\* A readiness check that counts every document of the tenant and plan
has_processed_documents_any_status(ds, tpa, plan) ==
    \E d \in 1..Len(ds) :
        /\ ds[d].tpa_id = tpa
        /\ (plan # None => ds[d].health_plan_id = plan)

\* document_crud.has_processed_documents
has_processed_documents(ds, tpa, plan) ==
    \E d \in 1..Len(ds) :
        /\ ds[d].tpa_id = tpa
        /\ ds[d].processing_status = "completed"
        /\ (plan # None => ds[d].health_plan_id = plan)

\* document_chunk_crud.search_chunks (CRUDDocumentChunk): the rows that pass
\* its tenant, plan and document type filters; the ilike filter on the
\* query text keeps a subset of them
search_chunks(cs, ds, tpa, plan, document_type) ==
    {c \in BagToSet(cs) :
        /\ c.tpa_id = tpa
        /\ (plan # None => ds[c.document_id].health_plan_id = plan)
        /\ (document_type # "any" => ds[c.document_id].document_type = document_type)}

\* The vectors the index holds under the filter of search_similar_chunks
VectorMatches(cs, ds, tpa, plan) ==
    {c \in BagToSet(cs) :
        /\ c.tpa_id = tpa
        /\ (plan # None => ds[c.document_id].health_plan_id = plan)}

\* A result confidence without the source-specific base values
_calculate_result_confidence_sourceless(has_chunk_type, chunk_type, source_type, analysis) ==
    LET tier == CASE analysis.complexity = "simple" -> 100
                  [] analysis.complexity = "complex" -> 0 - 100
                  [] OTHER -> 0
        match == IF has_chunk_type /\ chunk_type \in analysis.benefit_types THEN 100 ELSE 0
    IN 500 + tier + match

\* _calculate_result_confidence
_calculate_result_confidence(has_chunk_type, chunk_type, source_type, analysis) ==
    LET base == CASE source_type = "vector" -> 700
                  [] source_type = "knowledge_graph" -> 900
                  [] source_type = "cross_reference" -> 950
                  [] source_type = "database" -> 600
                  [] OTHER -> 500
        tier == CASE analysis.complexity = "simple" -> 100
                  [] analysis.complexity = "complex" -> 0 - 100
                  [] OTHER -> 0
        match == IF has_chunk_type /\ chunk_type \in analysis.benefit_types THEN 100 ELSE 0
        c == base + tier + match
    IN IF c < 0 THEN 0 ELSE IF c > 1000 THEN 1000 ELSE c

\* The entries _combine_search_results_with_confidence builds per source.
\* score_type tells a Python float from the Decimal a Numeric column loads.
VectorEntry(r, analysis) ==
    [content |-> r.content, source |-> "vector", score |-> r.score, score_type |-> "float",
     confidence |-> _calculate_result_confidence(FALSE, r.chunk_type, "vector", analysis),
     document_id |-> r.document_id, health_plan_id |-> None]

GraphEntry(r) ==
    [content |-> r.content, source |-> "knowledge_graph", score |-> 900,
     score_type |-> "float", confidence |-> 900,
     document_id |-> None, health_plan_id |-> r.health_plan_id]

CrossReferenceEntry(r) ==
    [content |-> r.content, source |-> "cross_reference", score |-> 950,
     score_type |-> "float", confidence |-> 950,
     document_id |-> None, health_plan_id |-> r.health_plan_id]

DatabaseEntry(c, analysis) ==
    [content |-> c.content, source |-> "database",
     score |-> IF c.relevance_score # 0 THEN c.relevance_score ELSE 500,
     score_type |-> IF c.relevance_score # 0 THEN "Decimal" ELSE "float",
     confidence |-> _calculate_result_confidence(TRUE, c.chunk_type, "database", analysis),
     document_id |-> c.document_id, health_plan_id |-> None]

MapSeq(Op(_), s) == [i \in 1..Len(s) |-> Op(s[i])]

\* key=lambda x: (x['confidence'], x['score']), compared for reverse order
RanksBefore(a, b) ==
    \/ a.confidence > b.confidence
    \/ a.confidence = b.confidence /\ a.score > b.score

\* sorted(..., reverse=True) is stable: an entry goes behind every entry of
\* an equal or higher key that came before it
InsertRanked(s, x) ==
    IF \E i \in 1..Len(s) : RanksBefore(x, s[i])
    THEN LET i == CHOOSE i \in 1..Len(s) :
                      RanksBefore(x, s[i]) /\ \A j \in 1..(i - 1) : ~RanksBefore(x, s[j])
         IN SubSeq(s, 1, i - 1) \o <<x>> \o SubSeq(s, i, Len(s))
    ELSE Append(s, x)

RECURSIVE Sorted(_)
Sorted(s) == IF s = <<>> THEN <<>> ELSE InsertRanked(Sorted(SubSeq(s, 1, Len(s) - 1)), s[Len(s)])

\* hash(result['content'][:100])
content_hash(content) == <<content.text, content.spelling>>

\* "Remove duplicates": the first entry of each content hash is kept
RECURSIVE unique_results(_, _)
unique_results(s, seen_content) ==
    IF s = <<>> THEN <<>>
    ELSE IF content_hash(Head(s).content) \in seen_content
         THEN unique_results(Tail(s), seen_content)
         ELSE <<Head(s)>> \o
              unique_results(Tail(s), seen_content \cup {content_hash(Head(s).content)})

FirstN(s, n) == IF Len(s) <= n THEN s ELSE SubSeq(s, 1, n)

_combine_search_results_with_confidence(vector_results, kg_results, db_results, cross_ref_results, analysis) ==
    LET combined == MapSeq(LAMBDA r : VectorEntry(r, analysis), vector_results)
                    \o MapSeq(GraphEntry, kg_results)
                    \o MapSeq(CrossReferenceEntry, cross_ref_results)
                    \o MapSeq(LAMBDA c : DatabaseEntry(c, analysis), db_results)
    IN FirstN(unique_results(Sorted(combined), {}), TopResults)

RECURSIVE SumScores(_)
SumScores(s) == IF s = <<>> THEN 0 ELSE Head(s).score + SumScores(Tail(s))

\* sum() and the subtraction of 0.5 raise TypeError when a score is a
\* Decimal: Python adds and subtracts no float and Decimal
ScoresRaise(retrieved) == \E i \in 1..Len(retrieved) : retrieved[i].score_type = "Decimal"

\* The sum of the adjustments without the final max(0.0, min(1.0, ...))
_calculate_confidence_score_unclamped(response, retrieved, analysis) ==
    500 + (IF retrieved # <<>>
           THEN (((SumScores(retrieved) \div Len(retrieved)) - 500) * 3) \div 10 ELSE 0)
        + (CASE response.confidence_level = "High" -> 200
             [] response.confidence_level = "Low" -> 0 - 200
             [] OTHER -> 0)
        + (CASE analysis.complexity = "simple" -> 100
             [] analysis.complexity = "complex" -> 0 - 100
             [] OTHER -> 0)
        + (IF Len(retrieved) >= 3 THEN 100 ELSE IF Len(retrieved) = 0 THEN 0 - 300 ELSE 0)

\* _calculate_confidence_score, for scores it can add up; the average and
\* the product by 0.3 are rounded down to the thousandth
_calculate_confidence_score(response, retrieved, analysis) ==
    LET base == 500
        quality == IF retrieved # <<>>
                   THEN (((SumScores(retrieved) \div Len(retrieved)) - 500) * 3) \div 10
                   ELSE 0
        ai == CASE response.confidence_level = "High" -> 200
                [] response.confidence_level = "Low" -> 0 - 200
                [] OTHER -> 0
        tier == CASE analysis.complexity = "simple" -> 100
                  [] analysis.complexity = "complex" -> 0 - 100
                  [] OTHER -> 0
        source_count == Len(retrieved)
        count == IF source_count >= 3 THEN 100 ELSE IF source_count = 0 THEN 0 - 300 ELSE 0
        confidence == base + quality + ai + tier + count
    IN IF confidence < 0 THEN 0 ELSE IF confidence > 1000 THEN 1000 ELSE confidence

\* A fallback that quotes the last of the retrieved chunks
_generate_fallback_response_last(retrieved) ==
    IF retrieved = <<>> THEN [kind |-> "not_enough_information", excerpt |-> <<>>]
    ELSE [kind |-> "excerpt", excerpt |-> <<retrieved[Len(retrieved)].content>>]

\* _generate_fallback_response: the fixed text, or an excerpt of chunks[0]
_generate_fallback_response(retrieved) ==
    IF retrieved = <<>> THEN [kind |-> "not_enough_information", excerpt |-> <<>>]
    ELSE [kind |-> "excerpt", excerpt |-> <<retrieved[1].content>>]

\* The except branch of _generate_response
FallbackResponse(retrieved) ==
    [kind |-> "fallback", answer |-> _generate_fallback_response(retrieved),
     confidence_level |-> "Low"]

\* What the reasoning capability may hand back to _generate_response: a
\* failure (the call raises, or its text is no JSON object), or a JSON
\* object with or without the answer field (a missing confidence_level
\* reads as 'Medium')
GenerationOutcomes ==
    {[ok |-> FALSE, has_answer |-> FALSE, confidence_level |-> "Medium"]}
      \cup {[ok |-> TRUE, has_answer |-> TRUE, confidence_level |-> l] : l \in ConfidenceLevels}
      \cup {[ok |-> TRUE, has_answer |-> FALSE, confidence_level |-> "Medium"]}

\* _generate_response
_generate_response(out, retrieved) ==
    IF out.ok
    THEN [kind |-> "generated",
          answer |-> [kind |-> IF out.has_answer THEN "generated" ELSE "missing",
                      excerpt |-> <<>>],
          confidence_level |-> out.confidence_level]
    ELSE FallbackResponse(retrieved)

MaxVectorResults == 1    \* matches the vector index returns

\* The sequences of at most n distinct elements of S
DistinctSeqs(S, n) ==
    UNION {{s \in [1..k -> S] : \A i, j \in 1..k : i # j => s[i] # s[j]} : k \in 0..n}

Raises == [raises |-> TRUE, results |-> <<>>]

Returns(results) == [raises |-> FALSE, results |-> results]

\* search_similar_chunks: it raises, or returns matches of the filter
VectorOutcomes(tpa, plan) ==
    {Raises} \cup
    {Returns(s) : s \in DistinctSeqs(
        {[content |-> c.content, score |-> sc, document_id |-> c.document_id,
          chunk_type |-> c.chunk_type] :
            c \in VectorMatches(chunks, docs, tpa, plan), sc \in VectorScores},
        MaxVectorResults)}

\* The description of the benefit the graph holds for a plan
GraphBenefit(plan) == [content |-> Content(100 + plan, 1, 0), health_plan_id |-> plan]

\* find_related_benefits_multi_hop: it raises, or returns benefits of the plan
GraphOutcomes(plan) == {Raises, Returns(<<>>), Returns(<<GraphBenefit(plan)>>)}

\* The connection the reasoning capability reports between an SPD and a
\* BPS section of the plan
Connection(plan) == [content |-> Content(200 + plan, 1, 0), health_plan_id |-> plan]

\* A failure after results were appended: the except branch keeps them
RaisesAfter(results) == [raises |-> TRUE, results |-> results]

\* An outcome of the resolver and whether it called chat_completion
Resolved(out, asked) ==
    [raises |-> out.raises, results |-> out.results, reasoning_asked |-> asked]

\* The resolver without the test of the two searches
_cross_reference_spd_bps_unguarded(spd_chunks, bps_chunks, plan) ==
    {Resolved(Raises, FALSE),
     Resolved(Raises, TRUE), Resolved(Returns(<<>>), TRUE),
     Resolved(Returns(<<Connection(plan)>>), TRUE),
     Resolved(RaisesAfter(<<Connection(plan)>>), TRUE)}

\* _cross_reference_spd_bps: connections are asked for only when both
\* searches found chunks.  Every failure inside is caught and the list built
\* so far is returned: [] when a search or the reasoning call failed, the
\* connections already appended when a later connection lacks a field
_cross_reference_spd_bps(spd_chunks, bps_chunks, plan) ==
    {Resolved(Raises, FALSE)} \cup
    (IF spd_chunks # {} /\ bps_chunks # {}
     THEN {Resolved(Raises, TRUE), Resolved(Returns(<<>>), TRUE),
           Resolved(Returns(<<Connection(plan)>>), TRUE),
           Resolved(RaisesAfter(<<Connection(plan)>>), TRUE)}
     ELSE {Resolved(Returns(<<>>), FALSE)})

\* The resolver on the SPD and BPS chunks search_chunks finds
CrossReferenceOutcomes(tpa, plan) ==
    _cross_reference_spd_bps(search_chunks(chunks, docs, tpa, plan, "spd"),
                             search_chunks(chunks, docs, tpa, plan, "bps"), plan)

\* document_chunk_crud.search_chunks: it raises, or returns the rows the
\* query text matches, highest relevance_score first
DatabaseOutcomes(tpa, plan) ==
    {Raises} \cup
    {Returns(s) : s \in {t \in DistinctSeqs(search_chunks(chunks, docs, tpa, plan, "any"),
                                           Cardinality(BagToSet(chunks))) :
                            \A i \in 1..(Len(t) - 1) :
                                t[i].relevance_score >= t[i + 1].relevance_score}}

QueryOver == {"idle", "not_ready", "answered", "unavailable"}

\* POST /chat/query, for a query text that is not blank (a blank one is
\* refused with 400 before anything is looked up), up to the call of
\* process_query: a tenant (and plan) without a completed document is
\* refused with 409 and ready_for_queries False in the detail
submit_query(tpa, plan) ==
    /\ rag.pc \in QueryOver
    /\ rag' = IF has_processed_documents(docs, tpa, plan)
              THEN [IdleQuery EXCEPT !.pc = "analyze", !.tpa_id = tpa, !.health_plan_id = plan]
              ELSE [IdleQuery EXCEPT !.pc = "not_ready", !.tpa_id = tpa, !.health_plan_id = plan,
                                     !.reply = [NoReply EXCEPT !.status = 409,
                                                               !.ready_for_queries = FALSE]]
    /\ UNCHANGED <<docs, chunks, last, calls, batch, sem, tasks, vs_init, retry, bg, pipe, fusion>>

\* _analyze_query
AnalyzeQuery(analysis) ==
    /\ rag.pc = "analyze"
    /\ rag' = [rag EXCEPT !.pc = "vector", !.analysis = analysis]
    /\ UNCHANGED <<docs, chunks, last, calls, batch, sem, tasks, vs_init, retry, bg, pipe, fusion>>

\* A block without its try/except: the failure of the source ends the query
SourceAnswered_uncaught(r, source, out, next) ==
    [r EXCEPT !.pc = IF out.raises THEN "unavailable" ELSE next,
              !.raised = out.raises,
              !.asked = @ \cup {source},
              !.failed = IF out.raises THEN @ \cup {source} ELSE @]

\* One source of _retrieve_information has been asked and has answered: the
\* except branch of its block logs the failure and the next block runs
SourceAnswered(r, source, out, next) ==
    [r EXCEPT !.pc = next,
              !.asked = @ \cup {source},
              !.failed = IF out.raises THEN @ \cup {source} ELSE @]

\* "1. Adaptive vector search": skipped unless the service's vector service
\* is initialized
VectorSearch(initialized, out) ==
    /\ rag.pc = "vector"
    /\ IF initialized
       THEN /\ out \in VectorOutcomes(rag.tpa_id, rag.health_plan_id)
            /\ rag' = [SourceAnswered(rag, "vector", out, "graph") EXCEPT
                          !.vector_results = out.results]
       ELSE /\ out = Returns(<<>>)
            /\ rag' = [rag EXCEPT !.pc = "graph"]
    /\ UNCHANGED <<docs, chunks, last, calls, batch, sem, tasks, vs_init, retry, bg, pipe, fusion>>

\* "2. Enhanced knowledge graph search": skipped unless the graph service is
\* initialized, a plan is given and the analysis names benefit types
GraphSearch(initialized, out) ==
    /\ rag.pc = "graph"
    /\ IF initialized /\ rag.health_plan_id # None /\ rag.analysis.benefit_types # {}
       THEN /\ out \in GraphOutcomes(rag.health_plan_id)
            /\ rag' = [SourceAnswered(rag, "knowledge_graph", out, "cross_reference") EXCEPT
                          !.kg_results = out.results]
       ELSE /\ out = Returns(<<>>)
            /\ rag' = [rag EXCEPT !.pc = "cross_reference"]
    /\ UNCHANGED <<docs, chunks, last, calls, batch, sem, tasks, vs_init, retry, bg, pipe, fusion>>

\* "3. SPD/BPS cross-referencing if needed"
CrossReference(out) ==
    /\ rag.pc = "cross_reference"
    /\ IF rag.analysis.cross_reference_needed /\ rag.health_plan_id # None
       THEN /\ out \in CrossReferenceOutcomes(rag.tpa_id, rag.health_plan_id)
            /\ rag' = [SourceAnswered(rag, "cross_reference", out, "database") EXCEPT
                          !.cross_ref_results = out.results,
                          !.reasoning_asked = out.reasoning_asked]
       ELSE /\ out = Resolved(Returns(<<>>), FALSE)
            /\ rag' = [rag EXCEPT !.pc = "database"]
    /\ UNCHANGED <<docs, chunks, last, calls, batch, sem, tasks, vs_init, retry, bg, pipe, fusion>>

\* "4. Traditional database search", then the results are combined and
\* _retrieve_information returns
DatabaseSearch(out) ==
    /\ rag.pc = "database"
    /\ out \in DatabaseOutcomes(rag.tpa_id, rag.health_plan_id)
    /\ rag' = [SourceAnswered(rag, "database", out, "generate") EXCEPT
                  !.db_results = out.results,
                  !.chunks = _combine_search_results_with_confidence(
                                 rag.vector_results, rag.kg_results, out.results,
                                 rag.cross_ref_results, rag.analysis)]
    /\ UNCHANGED <<docs, chunks, last, calls, batch, sem, tasks, vs_init, retry, bg, pipe, fusion>>

\* process_query raises AIServiceError when the confidence cannot be
\* computed or the response has no 'answer'
ProcessQueryRaises(response, retrieved) ==
    ScoresRaise(retrieved) \/ response.answer.kind = "missing"

\* _generate_response, _calculate_confidence_score and the return of
\* process_query; submit_query answers with the result, or with its
\* "RAG service unavailable" reply when process_query raised
GenerateResponse(out) ==
    /\ rag.pc = "generate"
    /\ LET response == _generate_response(out, rag.chunks)
           raised == ProcessQueryRaises(response, rag.chunks)
           confidence == IF raised THEN 0
                         ELSE _calculate_confidence_score(response, rag.chunks, rag.analysis)
       IN rag' = [rag EXCEPT
             !.pc = IF raised THEN "unavailable" ELSE "answered",
             !.vector_results = <<>>, !.kg_results = <<>>,
             !.cross_ref_results = <<>>, !.db_results = <<>>,
             !.response = response,
             !.raised = raised,
             !.confidence_score = confidence,
             !.reply = [NoReply EXCEPT
                           !.status = 200,
                           !.response = IF raised THEN "unavailable" ELSE response.answer.kind,
                           !.confidence_score = confidence,
                           !.error = IF raised THEN "RAG service unavailable" ELSE "none"]]
    /\ UNCHANGED <<docs, chunks, last, calls, batch, sem, tasks, vs_init, retry, bg, pipe, fusion>>

QueryStatuses == {"uploaded", "processing", "completed", "failed"}

\* A stored document of a tenant's plan with the chunk its processing has
\* stored (none while it is only uploaded)
QueryDocument(tpa, h, document_type, status) ==
    [Document(tpa, h, status) EXCEPT !.health_plan_id = tpa, !.document_type = document_type]

StoredChunks(status, row) == IF status = "uploaded" THEN EmptyBag ELSE SetToBag({row})

\* The texts the second document's chunk may hold: the first document's
\* text, another spelling of it, the same first 100 characters with another
\* continuation, or another text
SecondTexts == {Content(1, 1, 0), Content(1, 2, 0), Content(1, 1, 1), Content(2, 1, 0)}

\* The tables hold an SPD of tenant 1 and a BPS of either tenant, each in
\* any processing state
InitQuery ==
    /\ \E s1, s2 \in QueryStatuses, t2 \in Tenants, c2 \in SecondTexts :
          /\ docs = <<QueryDocument(1, 1, "spd", s1), QueryDocument(t2, 2, "bps", s2)>>
          /\ chunks = StoredChunks(s1, DocumentChunk(1, 1, 0, Content(1, 1, 0), "specialist"))
                        (+) StoredChunks(s2, DocumentChunk(t2, 2, 0, c2, "paragraph"))
    /\ last = NoCall
    /\ calls = IdleCalls
    /\ batch = IdleBatch
    /\ sem = 0
    /\ tasks = <<>>
    /\ vs_init = FALSE
    /\ retry = IdleRetry
    /\ bg = <<>>
    /\ rag = IdleQuery
    /\ pipe = IdlePipe
    /\ fusion = NoFusion

RetrievalStep ==
    \/ \E initialized \in BOOLEAN, out \in VectorOutcomes(rag.tpa_id, rag.health_plan_id)
            \cup {Returns(<<>>)} : VectorSearch(initialized, out)
    \/ \E initialized \in BOOLEAN, out \in GraphOutcomes(rag.health_plan_id) :
            GraphSearch(initialized, out)
    \/ \E out \in CrossReferenceOutcomes(rag.tpa_id, rag.health_plan_id)
            \cup {Resolved(Returns(<<>>), FALSE)} : CrossReference(out)
    \/ \E out \in DatabaseOutcomes(rag.tpa_id, rag.health_plan_id) : DatabaseSearch(out)

NextQuery ==
    \/ \E tpa \in Tenants, plan \in {None} \cup Plans : submit_query(tpa, plan)
    \/ \E analysis \in AnalysisOutcomes : AnalyzeQuery(analysis)
    \/ RetrievalStep
    \/ \E out \in GenerationOutcomes : GenerateResponse(out)

SpecQuery == InitQuery /\ [][NextQuery]_vars

\* process_query has returned an answer
Answered == rag.pc = "answered"

\* C14: whenever retrieval returned zero results, the confidence that
\* _calculate_confidence_score gives the answer is below 0.3, whatever the
\* query complexity and the confidence label of the response
C14_ZeroResultsLowConfidence ==
    (Answered /\ rag.chunks = <<>>) => rag.confidence_score < 300

\* _retrieve_information has returned the combined results
Retrieved == rag.pc \in {"generate", "answered", "unavailable"}

\* The content without the differences a normalisation removes (letter
\* case, runs of white space): two spellings of one text are one content
normalized(content) == <<content.text, content.tail>>

\* C15: of any two candidate results whose normalized content is identical
\* at most one appears in the fused output, whichever sources produced them
C15_NormalizedContentOnce ==
    Retrieved =>
        \A i, j \in 1..Len(rag.chunks) :
            i # j => normalized(rag.chunks[i].content) # normalized(rag.chunks[j].content)

\* The document a chunk row belongs to is of the querying tenant, of the
\* requested plan when one is given, and completed
FullyProcessedFor(row, tpa, plan) ==
    /\ docs[row.document_id].tpa_id = tpa
    /\ plan # None => docs[row.document_id].health_plan_id = plan
    /\ docs[row.document_id].processing_status = "completed"

\* C16: every full-text result that retrieval uses belongs to a completed
\* document of the querying tenant (and of the requested plan); chunks of
\* uploaded, processing or failed documents are never returned to a query
C16_FullTextOnlyCompleted ==
    rag.pc = "generate" =>
        \A i \in 1..Len(rag.db_results) :
            FullyProcessedFor(rag.db_results[i], rag.tpa_id, rag.health_plan_id)

RetrievalSteps == {"vector", "graph", "cross_reference", "database"}

\* The step of _retrieve_information after each of its blocks
AfterStep(pc) ==
    CASE pc = "vector" -> "graph"
      [] pc = "graph" -> "cross_reference"
      [] pc = "cross_reference" -> "database"
      [] pc = "database" -> "generate"

\* No block of _retrieve_information ends the query: whatever its source
\* did, the next block runs (or the combined results are returned)
RetrievalReturnsNormally ==
    rag.pc \in RetrievalSteps => /\ rag'.pc = AfterStep(rag.pc)
                                 /\ ~rag'.raised

\* The entries the results of the four sources are combined from
CandidateEntries(r) ==
    {VectorEntry(r.vector_results[i], r.analysis) : i \in 1..Len(r.vector_results)}
    \cup {GraphEntry(r.kg_results[i]) : i \in 1..Len(r.kg_results)}
    \cup {CrossReferenceEntry(r.cross_ref_results[i]) : i \in 1..Len(r.cross_ref_results)}
    \cup {DatabaseEntry(r.db_results[i], r.analysis) : i \in 1..Len(r.db_results)}

\* Every result of a source that did not fail is in the combined results,
\* itself or as the better-ranked result of the same fingerprint
SucceededRepresented ==
    \A entry \in CandidateEntries(rag) :
        entry.source \notin rag.failed =>
            \E k \in 1..Len(rag.chunks) :
                content_hash(rag.chunks[k].content) = content_hash(entry.content)

\* No combined result comes from a failed source among `sources`
FailedContributeNothing(sources) ==
    \A k \in 1..Len(rag.chunks) : rag.chunks[k].source \notin (rag.failed \cap sources)

ProcessQueryOver == rag.pc \in {"answered", "unavailable"}

\* C18: process_query never propagates a failure to its caller: for every
\* combination of failures of its capabilities and every shape of output of
\* the reasoning capability it returns a response containing an answer
C18_ProcessQueryAlwaysAnswers ==
    ProcessQueryOver =>
        /\ ~rag.raised
        /\ rag.response.answer.kind \in {"generated", "excerpt", "not_enough_information"}

\* The except branch of _generate_response has produced the response
GenerationFailed == ProcessQueryOver /\ rag.response.kind = "fallback"

\* The k-th retrieved chunk is a best one: none ranks before it
BestRanked(k) == \A j \in 1..Len(rag.chunks) : ~RanksBefore(rag.chunks[j], rag.chunks[k])

NoCompletedDocument(tpa, plan) ==
    \A d \in 1..Len(docs) :
        ~(/\ docs[d].tpa_id = tpa
          /\ docs[d].processing_status = "completed"
          /\ (plan # None => docs[d].health_plan_id = plan))

\* The reply is the 'not ready for queries' signal
NotReadySignal == rag.reply.status = 409 /\ ~rag.reply.ready_for_queries

\* C20: a query of a tenant (and plan scope) without a completed document
\* is answered with the 'not ready for queries' signal without retrieval or
\* generation being invoked, and no response produced when completed
\* documents exist carries that signal
C20_NotReadySignal ==
    /\ (rag.pc # "idle" /\ NoCompletedDocument(rag.tpa_id, rag.health_plan_id)) =>
          /\ rag.pc = "not_ready"
          /\ NotReadySignal
          /\ rag.asked = {}
          /\ rag.response = NoResponse
    /\ ProcessQueryOver =>
          /\ ~NoCompletedDocument(rag.tpa_id, rag.health_plan_id)
          /\ ~NotReadySignal
          /\ rag.reply.status = 200

\* A tenant whose only document is still processing has been refused
C20_Witness ==
    /\ rag.pc = "not_ready"
    /\ NotReadySignal
    /\ \E d \in 1..Len(docs) :
          docs[d].tpa_id = rag.tpa_id /\ docs[d].processing_status = "processing"

(***************************************************************************)
(* DocumentProcessor.process_document, chunk by chunk: the embedding loop   *)
(* of _process_spd_pdf and _process_bps_excel                              *)
(***************************************************************************)
MaxEmbedChunks == 3      \* chunks the extraction yields for a document

\* extract_spd_content / extract_bps_data: it raises, or yields n chunks
ExtractionOutcomes ==
    {[ok |-> FALSE, n |-> 0]} \cup {[ok |-> TRUE, n |-> k] : k \in 0..MaxEmbedChunks}

\* What happens to one chunk in the loop: generate_embedding raises, or the
\* embedding is set and upsert_document_chunk raises, or both succeed
EmbeddingOutcomes == {"embedding_failed", "upsert_failed", "stored"}

\* The chunk rows of document d with the indexes in J
RowsOf(ds, d, J) ==
    {DocumentChunk(ds[d].tpa_id, d, j, Content(ds[d].file_hash, 1, j), "paragraph") : j \in J}

\* Chunk i has gone through the loop body: in _process_bps_excel its row is
\* added to the session after the try/except (in _process_spd_pdf every row
\* was added and flushed before the loop)
ChunkDone(p) == [p EXCEPT !.i = p.i + 1, !.added = @ \cup {p.i}]

\* An except branch that leaves the loop body before db.add(chunk)
EmbeddingFailed_dropped(p) ==
    [p EXCEPT !.i = p.i + 1,
              !.failed_embeddings = @ \cup {p.i},
              !.failed_chunks = @ + 1]

\* generate_embedding raised: the except branch of the loop body counts the
\* chunk as failed and the loop goes on
EmbeddingFailed(p) ==
    [ChunkDone(p) EXCEPT !.failed_embeddings = @ \cup {p.i},
                         !.failed_chunks = @ + 1]

\* The embedding was set; storing it in the vector index raised
UpsertFailed(p) ==
    [ChunkDone(p) EXCEPT !.embedding = @ \cup {p.i},
                         !.vectorized_chunks = @ + 1,
                         !.failed_chunks = @ + 1]

\* The embedding was set and stored in the vector index
ChunkEmbedded(p) ==
    [ChunkDone(p) EXCEPT !.embedding = @ \cup {p.i},
                         !.indexed = @ \cup {p.i},
                         !.vectorized_chunks = @ + 1]

\* process_document up to the pipeline: the vector service is initialised
\* if need be (a failure marks the document failed and is raised), then the
\* document is marked processing
ProcessStart(d, init_ok) ==
    /\ pipe.pc = "idle"
    /\ d \in 1..Len(docs)
    /\ IF ~vs_init /\ ~init_ok
       THEN /\ docs' = MarkException(docs, d)
            /\ pipe' = [pipe EXCEPT !.pc = "done", !.document_id = d, !.other_failure = TRUE]
            /\ UNCHANGED vs_init
       ELSE /\ docs' = MarkProcessing(docs, d)
            /\ pipe' = [pipe EXCEPT !.pc = "extract", !.document_id = d]
            /\ vs_init' = TRUE
    /\ UNCHANGED <<chunks, last, calls, batch, sem, tasks, retry, bg, rag, fusion>>

\* The extraction: when it raises the pipeline returns False and the
\* document is marked failed; otherwise the chunk rows are built
Extract(out) ==
    /\ pipe.pc = "extract"
    /\ IF out.ok
       THEN /\ pipe' = [pipe EXCEPT
                  !.pc = "embed", !.n = out.n,
                  !.added = IF docs[pipe.document_id].document_type = "spd"
                            THEN 0..(out.n - 1) ELSE {}]
            /\ UNCHANGED docs
       ELSE /\ pipe' = [pipe EXCEPT !.pc = "done", !.other_failure = TRUE]
            /\ docs' = MarkFinal(docs, pipe.document_id, FALSE)
    /\ UNCHANGED <<chunks, last, calls, batch, sem, tasks, vs_init, retry, bg, rag, fusion>>

\* One pass of the embedding loop
EmbedChunk(out) ==
    /\ pipe.pc = "embed"
    /\ pipe.i < pipe.n
    /\ pipe' = CASE out = "embedding_failed" -> EmbeddingFailed(pipe)
                 [] out = "upsert_failed" -> UpsertFailed(pipe)
                 [] out = "stored" -> ChunkEmbedded(pipe)
    /\ UNCHANGED <<docs, chunks, last, calls, batch, sem, tasks, vs_init, retry, bg, rag, fusion>>

\* After the loop: the benefits go to the knowledge graph (failures are
\* logged), the session is committed and the pipeline returns True, and
\* process_document marks the document completed.  When a step after the
\* loop raises, the pipeline returns False, the document is marked failed
\* and the commit of process_document may or may not store the added rows
FinishPipeline(rest_ok, committed) ==
    /\ pipe.pc = "embed"
    /\ pipe.i = pipe.n
    /\ rest_ok => committed
    /\ pipe' = [pipe EXCEPT !.pc = "done", !.success = rest_ok,
                            !.other_failure = ~rest_ok]
    /\ docs' = MarkFinal(docs, pipe.document_id, rest_ok)
    /\ chunks' = IF committed
                 THEN chunks (+) SetToBag(RowsOf(docs, pipe.document_id, pipe.added))
                 ELSE chunks
    /\ UNCHANGED <<last, calls, batch, sem, tasks, vs_init, retry, bg, rag, fusion>>

\* An uploaded SPD or BPS of either tenant; the processor's vector service
\* may have been initialised by an earlier run
InitEmbed ==
    /\ \E tpa \in Tenants, document_type \in {"spd", "bps"} :
          docs = <<QueryDocument(tpa, 1, document_type, "uploaded")>>
    /\ chunks = EmptyBag
    /\ last = NoCall
    /\ calls = IdleCalls
    /\ batch = IdleBatch
    /\ sem = 0
    /\ tasks = <<>>
    /\ vs_init \in BOOLEAN
    /\ retry = IdleRetry
    /\ bg = <<>>
    /\ rag = IdleQuery
    /\ pipe = IdlePipe
    /\ fusion = NoFusion

NextEmbed ==
    \/ \E d \in {1}, init_ok \in BOOLEAN : ProcessStart(d, init_ok)
    \/ \E out \in ExtractionOutcomes : Extract(out)
    \/ \E out \in EmbeddingOutcomes : EmbedChunk(out)
    \/ \E rest_ok, committed \in BOOLEAN : FinishPipeline(rest_ok, committed)

SpecEmbed == InitEmbed /\ [][NextEmbed]_vars

\* The run is over and nothing but embedding calls failed in it
OnlyEmbeddingsFailed == pipe.pc = "done" /\ ~pipe.other_failure

\* C21: if the embedding call fails for any subset of a document's chunks,
\* each of those chunks is still stored (without a vector), the remaining
\* chunks are embedded and stored as usual, and the document still ends in
\* status completed
C21_EmbeddingFailuresTolerated ==
    OnlyEmbeddingsFailed =>
        /\ docs[pipe.document_id].processing_status = "completed"
        /\ \A j \in 0..(pipe.n - 1) :
              /\ CopiesIn(CHOOSE row \in RowsOf(docs, pipe.document_id, {j}) : TRUE, chunks) = 1
              /\ j \in pipe.failed_embeddings => j \notin pipe.embedding \cup pipe.indexed
              /\ j \notin pipe.failed_embeddings => j \in pipe.embedding

\* A completed run in which one chunk's embedding failed and another's did not
C21_Witness ==
    /\ OnlyEmbeddingsFailed
    /\ pipe.failed_embeddings # {}
    /\ pipe.embedding # {}
    /\ docs[pipe.document_id].document_type = "bps"

(***************************************************************************)
(* The fusion and the scoring of RAGService as functions of their          *)
(* arguments: _combine_search_results_with_confidence and                  *)
(* _calculate_confidence_score                                             *)
(***************************************************************************)
MaxFusionRows == 2       \* rows the database search hands to the fusion

\* Texts of the candidates: one text, the same first 100 characters with
\* another continuation, and another text
FusionContents == {Content(1, 1, 0), Content(1, 1, 1), Content(2, 1, 0)}

\* Raw scores of vector matches: the threshold and the maximum
FusionScores == {700, 1000}

\* relevance_score of a row: none (the fusion then takes 0.5) or the maximum
FusionRelevances == {0, 1000}

FusionVectorResults ==
    DistinctSeqs({[content |-> c, score |-> sc, document_id |-> 1, chunk_type |-> "specialist"] :
                     c \in {Content(1, 1, 0), Content(1, 1, 1)}, sc \in FusionScores},
                 MaxVectorResults)

FusionGraphResults == {<<>>, <<GraphBenefit(1)>>}

FusionCrossReferenceResults == {<<>>, <<Connection(1)>>}

\* Rows as search_chunks orders them: highest relevance_score first
FusionDatabaseResults ==
    {t \in DistinctSeqs({[DocumentChunk(1, 1, 0, c, "specialist") EXCEPT !.relevance_score = rel] :
                            c \in FusionContents, rel \in FusionRelevances},
                        MaxFusionRows) :
        \A i \in 1..(Len(t) - 1) : t[i].relevance_score >= t[i + 1].relevance_score}

\* _combine_search_results_with_confidence is called
CombineResults(vector_results, kg_results, db_results, cross_ref_results, analysis) ==
    /\ fusion.pc = "idle"
    /\ fusion' = [fusion EXCEPT
          !.pc = "combined", !.analysis = analysis,
          !.vector_results = vector_results, !.kg_results = kg_results,
          !.cross_ref_results = cross_ref_results, !.db_results = db_results,
          !.chunks = _combine_search_results_with_confidence(
                         vector_results, kg_results, db_results, cross_ref_results, analysis)]
    /\ UNCHANGED <<docs, chunks, last, calls, batch, sem, tasks, vs_init, retry, bg, rag, pipe>>

\* _calculate_confidence_score is called on the combined results and a
\* response with the given confidence_level; it raises on a Decimal score
ScoreResponse(confidence_level) ==
    /\ fusion.pc = "combined"
    /\ fusion' = IF ScoresRaise(fusion.chunks)
                 THEN [fusion EXCEPT !.pc = "raised", !.confidence_level = confidence_level]
                 ELSE [fusion EXCEPT
                          !.pc = "scored", !.confidence_level = confidence_level,
                          !.confidence_score = _calculate_confidence_score(
                              [confidence_level |-> confidence_level],
                              fusion.chunks, fusion.analysis)]
    /\ UNCHANGED <<docs, chunks, last, calls, batch, sem, tasks, vs_init, retry, bg, rag, pipe>>

InitFusion ==
    /\ docs = <<>>
    /\ chunks = EmptyBag
    /\ last = NoCall
    /\ calls = IdleCalls
    /\ batch = IdleBatch
    /\ sem = 0
    /\ tasks = <<>>
    /\ vs_init = FALSE
    /\ retry = IdleRetry
    /\ bg = <<>>
    /\ rag = IdleQuery
    /\ pipe = IdlePipe
    /\ fusion = NoFusion

NextFusion ==
    \/ /\ fusion.pc = "idle"
       /\ \E vector_results \in FusionVectorResults, kg_results \in FusionGraphResults,
             db_results \in FusionDatabaseResults,
             cross_ref_results \in FusionCrossReferenceResults,
             analysis \in AnalysisOutcomes :
               CombineResults(vector_results, kg_results, db_results, cross_ref_results, analysis)
    \/ \E confidence_level \in ConfidenceLevels : ScoreResponse(confidence_level)

SpecFusion == InitFusion /\ [][NextFusion]_vars

\* The fusion has returned
Combined == fusion.pc \in {"combined", "scored", "raised"}

\* The confidences given to the candidates of the sources in `sources`
ConfidencesOf(sources) ==
    {entry.confidence : entry \in {x \in CandidateEntries(fusion) : x.source \in sources}}

\* Every confidence of `higher` is at least every confidence of `lower`
AtLeast(higher, lower) == \A h \in higher, l \in lower : h >= l

\* C22: for any single query analysis the confidence of every graph or
\* cross-reference result is at least the confidence of every vector
\* result, which is at least the confidence of every full-text (database)
\* result, whatever the complexity tier and the category match
C22_ConfidenceOrdering ==
    Combined =>
        /\ AtLeast(ConfidencesOf({"knowledge_graph", "cross_reference"}), ConfidencesOf({"vector"}))
        /\ AtLeast(ConfidencesOf({"vector"}), ConfidencesOf({"database"}))
        /\ AtLeast(ConfidencesOf({"knowledge_graph", "cross_reference"}),
                   ConfidencesOf({"database"}))

\* All four sources gave a result and the full-text one matches an analysed
\* benefit type, which brings it level with the vector one
C22_Witness ==
    /\ Combined
    /\ \A source \in SourceNames : ConfidencesOf({source}) # {}
    /\ ConfidencesOf({"database"}) = ConfidencesOf({"vector"})
    /\ "specialist" \in fusion.analysis.benefit_types

\* C23: every confidence value the engine emits lies in [0,1]: the
\* confidence of each fused result and the overall answer confidence, for
\* all raw scores, complexity tiers, category matches and confidence labels
C23_ConfidencesInUnitInterval ==
    /\ Combined =>
          \A k \in 1..Len(fusion.chunks) :
              fusion.chunks[k].confidence >= 0 /\ fusion.chunks[k].confidence <= 1000
    /\ fusion.pc = "scored" => fusion.confidence_score >= 0 /\ fusion.confidence_score <= 1000

\* The adjustments of a High, simple answer with three well-scored sources
\* add up to more than 1 and the score is cut to 1
C23_Witness ==
    /\ fusion.pc = "scored"
    /\ fusion.confidence_score = 1000
    /\ fusion.confidence_level = "High"
    /\ fusion.analysis.complexity = "simple"
    /\ Len(fusion.chunks) >= 3

\* The resolver was called and has returned
ResolverReturned == "cross_reference" \in rag.asked

\* The chunks the resolver's two searches find for the query's tenant and plan
SpdCandidates == search_chunks(chunks, docs, rag.tpa_id, rag.health_plan_id, "spd")

BpsCandidates == search_chunks(chunks, docs, rag.tpa_id, rag.health_plan_id, "bps")

\* C24: the cross-reference resolver emits a connection only when at least
\* one SPD candidate and at least one BPS candidate were retrieved; when
\* either side has no candidate it returns an empty list and does not ask
\* the reasoning capability for connections
C24_ConnectionsNeedBothSides ==
    ResolverReturned =>
        /\ rag.cross_ref_results # <<>> => SpdCandidates # {} /\ BpsCandidates # {}
        /\ SpdCandidates = {} \/ BpsCandidates = {} =>
              rag.cross_ref_results = <<>> /\ ~rag.reasoning_asked

\* The resolver found an SPD chunk and no BPS chunk, and returned
C24_Witness ==
    /\ ResolverReturned
    /\ SpdCandidates # {}
    /\ BpsCandidates = {}
    /\ "cross_reference" \notin rag.failed

\* process_batch has raised on the size of the batch
BatchRejected == batch.phase = "rejected"

\* C25: process_batch called with more file paths than max_batch_size is
\* rejected with an error before any Document record is created and before
\* any document is processed; the stored state is unchanged
C25_OversizedBatchRejected ==
    /\ [](batch.n_files > max_batch_size => BatchRejected)
    /\ [](BatchRejected => batch.n_files > max_batch_size /\ batch.documents = <<>>)
    /\ [][BatchRejected' /\ ~BatchRejected => UNCHANGED <<docs, chunks, tasks, sem, vs_init>>]_vars

\* A batch of max_batch_size + 1 paths was handed in and refused
C25_Witness == BatchRejected /\ batch.n_files = max_batch_size + 1

\* C28: the summary process_batch returns accounts for every input file
\* path: total_documents is the number of input paths, results holds one
\* entry per input file with status completed or failed, and successful +
\* failed = total_documents, also when the record of some file could not
\* be created
C28_SummaryAccountsForEveryPath ==
    batch.phase = "done" =>
        /\ batch.total_documents = batch.n_files
        /\ Len(batch.results) = batch.n_files
        /\ \A i \in 1..Len(batch.results) : batch.results[i].status \in {"completed", "failed"}
        /\ batch.successful + batch.failed = batch.total_documents

\* The step is a delete_version call
DeleteCalled == last'.op = "delete"

\* The row the call names has the 'is a version' marker
DeleteOfVersion == ExistsFor(docs, last'.id, last'.tpa_id) /\ docs[last'.id].is_version

\* Row d is as it was but for the deletion fields
OnlyMarkedDeleted(d) ==
    docs'[d] = [docs[d] EXCEPT !.deleted = TRUE, !.deleted_by = last'.user_id,
                               !.deleted_at = TRUE, !.delete_reason = last'.delete_reason]

Kept(entry) == \E k \in 1..Len(fusion.chunks) : fusion.chunks[k] = entry

\* C29: the fusion drops a candidate only if a kept result has exactly the
\* same content (candidates whose contents differ, be it only after their
\* first 100 characters, are both eligible), and the copy kept among
\* candidates of the same content is the one ranked highest by
\* (confidence, score)
C29_DedupOnExactContent ==
    Combined =>
        /\ \A entry \in CandidateEntries(fusion) :
              ~Kept(entry) =>
                  \E k \in 1..Len(fusion.chunks) : fusion.chunks[k].content = entry.content
        /\ \A k \in 1..Len(fusion.chunks) :
              \A entry \in CandidateEntries(fusion) :
                  entry.content = fusion.chunks[k].content =>
                      ~RanksBefore(entry, fusion.chunks[k])

(***************************************************************************)
(* Retrieval for a tenant whose document names another tenant's plan       *)
(***************************************************************************)
\* HealthPlan.tpa_id: health plan p belongs to tenant p
PlanOwner(plan) == plan

\* Tenant 1 has uploaded an SPD under a plan id of its choice (the upload
\* endpoint stores the health_plan_id of the form as it comes) and the
\* document is processed; tenant 2 holds a processed BPS under its own plan
InitIsolation ==
    /\ \E plan \in Plans, c2 \in SecondTexts :
          /\ docs = <<[QueryDocument(1, 1, "spd", "completed") EXCEPT !.health_plan_id = plan],
                      QueryDocument(2, 2, "bps", "completed")>>
          /\ chunks = SetToBag({DocumentChunk(1, 1, 0, Content(1, 1, 0), "specialist"),
                                DocumentChunk(2, 2, 0, c2, "paragraph")})
    /\ last = NoCall
    /\ calls = IdleCalls
    /\ batch = IdleBatch
    /\ sem = 0
    /\ tasks = <<>>
    /\ vs_init = FALSE
    /\ retry = IdleRetry
    /\ bg = <<>>
    /\ rag = IdleQuery
    /\ pipe = IdlePipe
    /\ fusion = NoFusion

SpecIsolation == InitIsolation /\ [][NextQuery]_vars

SourceCalled(initialized) ==
    CASE rag.pc = "vector" -> initialized
      [] rag.pc = "graph" ->
            initialized /\ rag.health_plan_id # None /\ rag.analysis.benefit_types # {}
      [] rag.pc = "cross_reference" ->
            rag.analysis.cross_reference_needed /\ rag.health_plan_id # None
      [] rag.pc = "database" -> TRUE
      [] OTHER -> FALSE

\* The source called never answers: the call is awaited as it is, with no
\* timeout around it, and the blocks behind it wait for its return
AwaitSource(initialized) ==
    /\ rag.pc \in RetrievalSteps
    /\ SourceCalled(initialized)
    /\ rag' = [rag EXCEPT !.pc = "awaiting"]
    /\ UNCHANGED <<docs, chunks, last, calls, batch, sem, tasks, vs_init, retry, bg, pipe, fusion>>

NextUnresponsive ==
    \/ NextQuery
    \/ \E initialized \in BOOLEAN : AwaitSource(initialized)

\* The event loop runs whatever can run
LiveSpecUnresponsive ==
    InitIsolation /\ [][NextUnresponsive]_vars /\ WF_vars(NextUnresponsive)

\* C27: a retrieval source that never responds does not prevent the query
\* from eventually returning: the unresponsive source is given up and the
\* query completes with the results of the other sources
C27_UnresponsiveSourceGivenUp ==
    (rag.pc = "awaiting") ~> (rag.pc \in QueryOver)

====
